---- MODULE Spec2Model ----
(***************************************************************************)
(* Model of src/hello_world/app.py: the route table, the dispatcher        *)
(* lambda_handler, the seven invoice handlers, and the DynamoDB table they *)
(* read and write.                                                         *)
(*                                                                         *)
(* Conventions.                                                            *)
(*  - A Python str is a sequence of tokens; a token is a TLA+ string that  *)
(*    stands for a run of characters holding none of "/", "{", "}".  The   *)
(*    three separators and the decimal digits are tokens of one character. *)
(*  - A str that holds the JSON text of a value v is JText(v) where it is   *)
(*    a JSON value and JsonText(v) where it is a response body.            *)
(*  - An optional value is None or Some(x).                                *)
(*  - A JSON value is tagged: JStr, JNum, JMap (a function from field      *)
(*    names to JSON values) or JList (a sequence of JSON values).          *)
(*  - The storage calls (get_item, put_item, update_item, delete_item,     *)
(*    scan, upload_fileobj) are atomic and succeed.                        *)
(***************************************************************************)
EXTENDS Integers, Sequences, FiniteSets, TLC

VARIABLES
    table,        \* the DynamoDB table "Invoices": reference_id -> item
    pc,           \* "idle" between invocations, "done" after one
    served,       \* number of invocations so far
    event,        \* the event of the last invocation
    result,       \* what lambda_handler did with it (see Outcome below)
    prevTable,    \* the table when the last invocation began
    bucket,       \* the keys of the objects uploaded to the S3 bucket
    procs         \* the concurrent add-item requests (SpecConcurrent only)

vars == <<table, pc, served, event, result, prevTable, bucket, procs>>

\* ---------------------------------------------------------------- bounds
MaxRequests == 3

\* ------------------------------------------------------------ basic values
None == [some |-> FALSE]
Some(x) == [some |-> TRUE, v |-> x]

JStr(s) == [ty |-> "str", s |-> s]
JNum(n) == [ty |-> "num", n |-> n]
JFloat(n) == [ty |-> "float", n |-> n]
JMap(m) == [ty |-> "map", m |-> m]
JList(l) == [ty |-> "list", l |-> l]
\* a str that holds the JSON text of v, as a JSON value and as a response body
JText(v) == [ty |-> "jsonstr", v |-> v]
JsonText(v) == [json |-> v]

EmptyMap == [k \in {} |-> None]

\* dict.update / {**f, **g}
Merge(f, g) ==
    [k \in (DOMAIN f) \cup (DOMAIN g) |-> IF k \in DOMAIN g THEN g[k] ELSE f[k]]

\* ------------------------------------------------------- Python str methods
\* s.startswith(p)
StartsWith(s, p) == Len(s) >= Len(p) /\ SubSeq(s, 1, Len(p)) = p

RECURSIVE LStrip(_, _)
LStrip(s, ch) == IF s # <<>> /\ Head(s) = ch THEN LStrip(Tail(s), ch) ELSE s

RECURSIVE RStrip(_, _)
RStrip(s, ch) ==
    IF s # <<>> /\ s[Len(s)] = ch THEN RStrip(SubSeq(s, 1, Len(s) - 1), ch) ELSE s

\* s.strip(ch)
Strip(s, ch) == RStrip(LStrip(s, ch), ch)

\* s.split(ch): "" splits into [""], "a//b" into ["a", "", "b"]
RECURSIVE Split(_, _)
Split(s, ch) ==
    IF \A i \in 1..Len(s) : s[i] # ch
    THEN <<s>>
    ELSE LET i == CHOOSE j \in 1..Len(s) :
                      s[j] = ch /\ \A k \in 1..(j - 1) : s[k] # ch
         IN <<SubSeq(s, 1, i - 1)>> \o Split(SubSeq(s, i + 1, Len(s)), ch)

Digit == <<"0", "1", "2", "3", "4", "5", "6", "7", "8", "9">>

\* str(n) of a non-negative whole number
RECURSIVE IntToStr(_)
IntToStr(n) ==
    IF n < 10 THEN <<Digit[n + 1]>>
    ELSE IntToStr(n \div 10) \o <<Digit[(n % 10) + 1]>>

\* str(x) of what item.get("id") yields: a str, a number, or None
PyStr(x) ==
    IF ~x.some THEN <<"None">>
    ELSE IF x.v.ty = "str" THEN x.v.s
    ELSE IntToStr(x.v.n)

\* ------------------------------------------------------------- route table
\* route(path, method)(func) on the insertion-ordered dict ROUTES
Route(routes, path, method, func) ==
    IF \E i \in 1..Len(routes) : routes[i].path = path /\ routes[i].method = method
    THEN [i \in 1..Len(routes) |->
            IF routes[i].path = path /\ routes[i].method = method
            THEN [routes[i] EXCEPT !.handler = func]
            ELSE routes[i]]
    ELSE Append(routes, [path |-> path, method |-> method, handler |-> func])

PInvoices == <<"/", "invoices">>
PInvoice == <<"/", "invoices", "/", "{", "reference_id", "}">>
PItems == PInvoice \o <<"/", "items">>
PItem == PItems \o <<"/", "{", "item_id", "}">>

ROUTES ==
    Route(Route(Route(Route(Route(Route(Route(<<>>,
        PInvoices, "POST", "create_invoice_handler"),
        PInvoices, "GET", "get_all_invoices"),
        PInvoice, "GET", "get_invoice_handler"),
        PInvoice, "PUT", "update_invoice_handler"),
        PInvoice, "DELETE", "delete_invoice_handler"),
        PItems, "POST", "add_item_to_invoice"),
        PItem, "DELETE", "delete_item_from_invoice")

\* ROUTES.get((path, method)): the index of the entry, 0 for None
RoutesGet(path, method) ==
    IF path.some /\ method.some
       /\ \E i \in 1..Len(ROUTES) : ROUTES[i].path = path.v /\ ROUTES[i].method = method.v
    THEN CHOOSE i \in 1..Len(ROUTES) : ROUTES[i].path = path.v /\ ROUTES[i].method = method.v
    ELSE 0

\* ---------------------------------------------------------------- responses
DefaultHeaders == [k \in {"Content-Type"} |-> <<"application/json">>]

\* make_response(status_code, body) with a body that is not a str
make_response(status_code, body) ==
    [statusCode |-> status_code, headers |-> DefaultHeaders, body |-> JsonText(body)]

\* what a handler leaves behind: its response, the table and the bucket
Ret(resp, t, b) == [response |-> resp, table |-> t, bucket |-> b]

\* except Exception as e: return make_response(500, {"error": str(e)})
Error500(exc, t, b) == Ret(make_response(500, [error |-> exc]), t, b)

\* ------------------------------------------------------------ storage calls
\* table.get_item(Key={"reference_id": key}): Some(item) when "Item" is in the answer
GetItem(t, key) == IF key \in DOMAIN t THEN Some(t[key]) ELSE None

\* table.put_item(Item=item): creates or replaces the whole item
PutItem(t, item) ==
    LET key == item.reference_id.s
    IN [k \in (DOMAIN t) \cup {key} |-> IF k = key THEN item ELSE t[k]]

\* table.update_item(Key=..., UpdateExpression="SET f = :f, ..."): sets the named
\* attributes, creating the item when the key is not stored
UpdateItem(t, key, sets) ==
    LET base == IF key \in DOMAIN t THEN t[key] ELSE [reference_id |-> JStr(key)]
    IN [k \in (DOMAIN t) \cup {key} |-> IF k = key THEN Merge(base, sets) ELSE t[k]]

\* table.delete_item(Key=...): succeeds whether or not the key is stored
DeleteItem(t, key) == [k \in (DOMAIN t) \ {key} |-> t[k]]

\* table.scan()["Items"], in no particular order
Scan(t) == {t[k] : k \in DOMAIN t}

\* ------------------------------------------------------------ parsing
\* json.loads(event.get("body", "{}"))
JsonLoadsBody(ev) ==
    CASE ev.body.k = "absent" -> [ok |-> TRUE, v |-> JMap(EmptyMap)]
      [] ev.body.k = "null" -> [ok |-> FALSE, exc |-> "TypeError"]
      [] ev.body.k = "json" -> [ok |-> TRUE, v |-> ev.body.v]
      [] OTHER -> [ok |-> FALSE, exc |-> "JSONDecodeError"]

\* isinstance(x, str)
IsStr(x) == x.ty \in {"str", "jsonstr"}

\* json.loads(x) of a str
JsonLoads(x) ==
    IF x.ty = "jsonstr" THEN [ok |-> TRUE, v |-> x.v]
    ELSE [ok |-> FALSE, exc |-> "JSONDecodeError"]

MultipartFormData == <<"multipart/form-data">>
ApplicationJson == <<"application/json">>

\* dict.get
DictGet(d, k) == IF k \in DOMAIN d THEN Some(d[k]) ELSE None

\* a or b, of two optional strs
PyOr(a, b) == IF a.some /\ a.v # <<>> THEN a ELSE b

\* header names in lower case
Lower(name) == IF name = "Content-Type" THEN "content-type" ELSE name

\* parse_multipart(event): the form fields (all strs) and the file part.  The body
\* is read in the encoding isBase64Encoded names.
parse_multipart(ev) ==
    LET hs == ev.headers.v
        lowered == [n \in {Lower(k) : k \in DOMAIN hs} |->
                       hs[CHOOSE k \in DOMAIN hs : Lower(k) = n]]
        content_type == DictGet(lowered, "content-type")
    IN IF ~content_type.some \/ content_type.v = <<>>
          \/ ~StartsWith(content_type.v, MultipartFormData)
       THEN [ok |-> TRUE, form |-> EmptyMap, file |-> None]
       ELSE IF ev.body.k = "null" THEN [ok |-> FALSE, exc |-> "AttributeError"]
       ELSE IF ev.body.k = "absent" THEN [ok |-> FALSE, exc |-> "KeyError"]
       ELSE IF ev.body.k # "multipart"
            THEN [ok |-> FALSE, exc |-> "ImproperBodyPartContentException"]
       ELSE [ok |-> TRUE, form |-> ev.body.form, file |-> ev.body.file]

\* decimal_to_float(obj)
RECURSIVE decimal_to_float(_)
decimal_to_float(obj) ==
    CASE obj.ty = "list" -> JList([i \in 1..Len(obj.l) |-> decimal_to_float(obj.l[i])])
      [] obj.ty = "map" -> JMap([k \in DOMAIN obj.m |-> decimal_to_float(obj.m[k])])
      [] obj.ty = "num" -> JFloat(obj.n)
      [] OTHER -> obj

\* ------------------------------------------------------------------ handlers
RequiredFields ==
    <<"reference_id", "company_name", "tin", "invoice_number", "transaction_date",
      "items", "encoder", "payee", "payee_account", "approver">>

ItemFields == <<"id", "particulars", "project_class", "account", "vatable", "amount">>

AllowedFields == <<"company_name", "tin", "transaction_date", "items">>

\* the positions of fields that the dict d lacks
Missing(fields, d) == {i \in 1..Len(fields) : fields[i] \notin DOMAIN d}

Min(S) == CHOOSE x \in S : \A y \in S : x <= y

NoFileUploaded == JStr(<<"no-file-uploaded">>)

\* the duplicate check left out: every reference_id passes as new
AlreadyExistsNever(t, body) == FALSE

\* lines 129-130: "Item" in table.get_item(Key={"reference_id": body["reference_id"]})
AlreadyExists(t, body) == GetItem(t, body.reference_id.s).some

\* lines 115-150 of create_invoice_handler: validation, the duplicate check, the put
CreateFromBody(body, now, t, b) ==
    IF Missing(RequiredFields, body) # {}
    THEN Ret(make_response(400,
             [error |-> <<"Missing field: ", RequiredFields[Min(Missing(RequiredFields, body))]>>]),
             t, b)
    ELSE
    LET parsed == IF IsStr(body.items) THEN JsonLoads(body.items)
                  ELSE [ok |-> TRUE, v |-> body.items]
    IN IF ~parsed.ok THEN Error500(parsed.exc, t, b)
       ELSE IF parsed.v.ty # "list" THEN Error500("TypeError", t, b)
       ELSE
       LET items == parsed.v.l
           bad == {i \in 1..Len(items) :
                      items[i].ty # "map" \/ Missing(ItemFields, items[i].m) # {}}
       IN IF bad # {} /\ items[Min(bad)].ty # "map" THEN Error500("TypeError", t, b)
          ELSE IF bad # {}
          THEN Ret(make_response(400,
                   [error |-> <<"Missing item field: ",
                                ItemFields[Min(Missing(ItemFields, items[Min(bad)].m))]>>]),
                   t, b)
          ELSE IF body.reference_id.ty # "str" THEN Error500("ClientError", t, b)
          ELSE IF AlreadyExists(t, body)
          THEN Ret(make_response(409, [error |-> "Invoice already exists"]), t, b)
          ELSE
          LET invoice_data ==
                  [reference_id |-> body.reference_id,
                   company_name |-> body.company_name,
                   tin |-> body.tin,
                   invoice_number |-> body.invoice_number,
                   transaction_date |-> body.transaction_date,
                   items |-> JList(items),
                   encoder |-> body.encoder,
                   payee |-> body.payee,
                   payee_account |-> body.payee_account,
                   approver |-> body.approver,
                   file_url |-> IF "file_url" \in DOMAIN body THEN body.file_url
                                ELSE NoFileUploaded,
                   encoding_date |-> JStr(now),
                   status |-> JStr(<<"Pending">>)]
          IN Ret(make_response(201, [message |-> "Invoice created", data |-> invoice_data]),
                 PutItem(t, invoice_data), b)

\* the key and the URL of an uploaded file
FileKey(uuid, filename) == <<"invoices", "/", uuid, "_", filename>>
FileUrl(file_key) == JStr(<<"http:", "/", "/", "localhost:4566", "/", "my-bucket", "/">> \o file_key)

\* @route("/invoices", "POST")
create_invoice_handler(ev, now, uuid, t, b) ==
    IF ~ev.headers.some THEN Error500("KeyError", t, b)
    ELSE
    LET content_type == PyOr(DictGet(ev.headers.v, "Content-Type"),
                             DictGet(ev.headers.v, "content-type"))
    IN IF ~content_type.some THEN Error500("AttributeError", t, b)
       ELSE IF StartsWith(content_type.v, MultipartFormData)
       THEN LET p == parse_multipart(ev)
            IN IF ~p.ok THEN Error500(p.exc, t, b)
               ELSE IF p.file.some
               THEN LET file_key == FileKey(uuid, p.file.v.filename)
                    IN CreateFromBody(Merge(p.form, [file_url |-> FileUrl(file_key)]),
                                      now, t, b \cup {file_key})
               ELSE CreateFromBody(Merge(p.form, [file_url |-> NoFileUploaded]), now, t, b)
       ELSE IF StartsWith(content_type.v, ApplicationJson)
       THEN LET j == JsonLoadsBody(ev)
            IN IF ~j.ok THEN Error500(j.exc, t, b)
               ELSE IF j.v.ty # "map" THEN Error500("TypeError", t, b)
               ELSE CreateFromBody(Merge(j.v.m, [file_url |-> NoFileUploaded]), now, t, b)
       ELSE Ret(make_response(400, [error |-> "Unsupported Content-Type"]), t, b)

\* @route("/invoices", "GET")
get_all_invoices(ev, t, b) ==
    Ret(make_response(200, {decimal_to_float(JMap(i)) : i \in Scan(t)}), t, b)

\* event["pathParameters"][name]: Some(value), or None when the lookup raises
PathParam(ev, name) ==
    IF ev.pathParameters.some THEN DictGet(ev.pathParameters.v, name) ELSE None

\* the exception event["pathParameters"][name] raises
PathParamError(ev) == IF ev.pathParameters.some THEN "KeyError" ELSE "TypeError"

\* @route("/invoices/{reference_id}", "GET")
get_invoice_handler(ev, t, b) ==
    LET reference_id == PathParam(ev, <<"reference_id">>)
    IN IF ~reference_id.some THEN Error500(PathParamError(ev), t, b)
       ELSE IF GetItem(t, reference_id.v).some
       THEN Ret(make_response(200, decimal_to_float(JMap(GetItem(t, reference_id.v).v))), t, b)
       ELSE Ret(make_response(404, [error |-> "Invoice not found"]), t, b)

\* every field of the body is written, not only the allowed ones
UpdateSetsAll(body) == body

\* lines 186-191: the SET clauses update_invoice_handler builds from the body
UpdateSets(body) ==
    [f \in {AllowedFields[i] : i \in 1..Len(AllowedFields)} \cap DOMAIN body |-> body[f]]

\* @route("/invoices/{reference_id}", "PUT")
update_invoice_handler(ev, t, b) ==
    LET reference_id == PathParam(ev, <<"reference_id">>)
        j == JsonLoadsBody(ev)
    IN IF ~reference_id.some THEN Error500(PathParamError(ev), t, b)
       ELSE IF ~j.ok THEN Error500(j.exc, t, b)
       ELSE IF ~GetItem(t, reference_id.v).some
       THEN Ret(make_response(404, [error |-> "Invoice not found"]), t, b)
       ELSE IF j.v.ty # "map" THEN Error500("TypeError", t, b)
       ELSE IF DOMAIN UpdateSets(j.v.m) = {}
       THEN Ret(make_response(400, [error |-> "No valid fields to update"]), t, b)
       ELSE Ret(make_response(200, [message |-> "Invoice updated"]),
                UpdateItem(t, reference_id.v, UpdateSets(j.v.m)), b)

\* @route("/invoices/{reference_id}", "DELETE")
delete_invoice_handler(ev, t, b) ==
    LET reference_id == PathParam(ev, <<"reference_id">>)
    IN IF ~reference_id.some THEN Error500(PathParamError(ev), t, b)
       ELSE Ret(make_response(200, [message |-> "Invoice deleted"]),
                DeleteItem(t, reference_id.v), b)

\* invoice["Item"].get("items", [])
ItemsOf(invoice) == IF "items" \in DOMAIN invoice THEN invoice.items ELSE JList(<<>>)

\* lines 218-224 of add_item_to_invoice: the path parameter, the body, its fields;
\* None when they pass, Some(response) when the handler answers at once
AddItemValidate(ev) ==
    LET reference_id == PathParam(ev, <<"reference_id">>)
        j == JsonLoadsBody(ev)
    IN IF ~reference_id.some THEN Some(make_response(500, [error |-> PathParamError(ev)]))
       ELSE IF ~j.ok THEN Some(make_response(500, [error |-> j.exc]))
       ELSE IF j.v.ty # "map" THEN Some(make_response(500, [error |-> "TypeError"]))
       ELSE IF Missing(ItemFields, j.v.m) # {}
       THEN Some(make_response(400,
                [error |-> <<"Missing item field: ", ItemFields[Min(Missing(ItemFields, j.v.m))]>>]))
       ELSE None

\* lines 226-231: get_item, and the item list with the body appended
AddItemRead(ev, t) ==
    LET invoice == GetItem(t, PathParam(ev, <<"reference_id">>).v)
    IN IF ~invoice.some
       THEN [ok |-> FALSE, response |-> make_response(404, [error |-> "Invoice not found"])]
       ELSE IF ItemsOf(invoice.v).ty # "list"
       THEN [ok |-> FALSE, response |-> make_response(500, [error |-> "AttributeError"])]
       ELSE [ok |-> TRUE, items |-> Append(ItemsOf(invoice.v).l, JsonLoadsBody(ev).v)]

\* lines 233-237: update_item with the list that was read and appended to
AddItemWrite(ev, t, items) ==
    UpdateItem(t, PathParam(ev, <<"reference_id">>).v, [items |-> JList(items)])

\* line 239
AddItemDone(ev) == make_response(200, [message |-> "Item added", data |-> JsonLoadsBody(ev).v])

\* @route("/invoices/{reference_id}/items", "POST")
add_item_to_invoice(ev, t, b) ==
    IF AddItemValidate(ev).some THEN Ret(AddItemValidate(ev).v, t, b)
    ELSE IF ~AddItemRead(ev, t).ok THEN Ret(AddItemRead(ev, t).response, t, b)
    ELSE Ret(AddItemDone(ev), AddItemWrite(ev, t, AddItemRead(ev, t).items), b)

\* [item for item in original_items if str(item.get("id")) != item_id]
RECURSIVE FilterItems(_, _)
FilterItems(original_items, item_id) ==
    IF original_items = <<>> THEN <<>>
    ELSE IF PyStr(DictGet(Head(original_items).m, "id")) # item_id
    THEN <<Head(original_items)>> \o FilterItems(Tail(original_items), item_id)
    ELSE FilterItems(Tail(original_items), item_id)

\* @route("/invoices/{reference_id}/items/{item_id}", "DELETE")
delete_item_from_invoice(ev, t, b) ==
    LET reference_id == PathParam(ev, <<"reference_id">>)
        item_id == PathParam(ev, <<"item_id">>)
    IN IF ~reference_id.some \/ ~item_id.some THEN Error500(PathParamError(ev), t, b)
       ELSE IF ~GetItem(t, reference_id.v).some
       THEN Ret(make_response(404, [error |-> "Invoice not found"]), t, b)
       ELSE
       LET original_items == ItemsOf(GetItem(t, reference_id.v).v)
       IN IF original_items.ty # "list" THEN Error500("TypeError", t, b)
          ELSE IF \E i \in 1..Len(original_items.l) : original_items.l[i].ty # "map"
          THEN Error500("AttributeError", t, b)
          ELSE
          LET updated_items == FilterItems(original_items.l, item_id.v)
          IN IF Len(updated_items) = Len(original_items.l)
             THEN Ret(make_response(404, [error |-> "Item not found"]), t, b)
             ELSE Ret(make_response(200, [message |-> <<"Item ", item_id.v, " deleted">>]),
                      UpdateItem(t, reference_id.v, [items |-> JList(updated_items)]), b)

\* ---------------------------------------------------------------- dispatcher
\* handler(event), for the handler registered under the name
CallHandler(name, ev, now, uuid, t, b) ==
    CASE name = "create_invoice_handler" -> create_invoice_handler(ev, now, uuid, t, b)
      [] name = "get_all_invoices" -> get_all_invoices(ev, t, b)
      [] name = "get_invoice_handler" -> get_invoice_handler(ev, t, b)
      [] name = "update_invoice_handler" -> update_invoice_handler(ev, t, b)
      [] name = "delete_invoice_handler" -> delete_invoice_handler(ev, t, b)
      [] name = "add_item_to_invoice" -> add_item_to_invoice(ev, t, b)
      [] name = "delete_item_from_invoice" -> delete_item_from_invoice(ev, t, b)

\* Outcome of lambda_handler: it returned a response or raised; the handler it
\* invoked, if any, and the event that handler received
Returned(name, ev, r) ==
    [raised |-> FALSE, invoked |-> name, handlerEvent |-> ev,
     response |-> Some(r.response), table |-> r.table, bucket |-> r.bucket]

Raised(exc, t, b) ==
    [raised |-> TRUE, exc |-> exc, invoked |-> None, handlerEvent |-> None,
     response |-> None, table |-> t, bucket |-> b]

\* return handler(event)
Invoke(name, ev, now, uuid, t, b) ==
    Returned(Some(name), Some(ev), CallHandler(name, ev, now, uuid, t, b))

\* route_part.startswith("{") and route_part.endswith("}")
IsPlaceholder(route_part) ==
    /\ StartsWith(route_part, <<"{">>)
    /\ Len(route_part) >= 1 /\ route_part[Len(route_part)] = "}"

\* lines 284-292: the walk over zip(route_parts, path_parts) from position k on
RECURSIVE MatchParts(_, _, _, _)
MatchParts(route_parts, path_parts, k, path_params) ==
    IF k > Len(route_parts) \/ k > Len(path_parts)
    THEN [matched |-> TRUE, path_params |-> path_params]
    ELSE IF IsPlaceholder(route_parts[k])
    THEN MatchParts(route_parts, path_parts, k + 1,
             Merge(path_params,
                   [key \in {SubSeq(route_parts[k], 2, Len(route_parts[k]) - 1)} |->
                       path_parts[k]]))
    ELSE IF route_parts[k] # path_parts[k]
    THEN [matched |-> FALSE, path_params |-> path_params]
    ELSE MatchParts(route_parts, path_parts, k + 1, path_params)

\* the length check left out: zip stops at the shorter list
SameLengthAlways(route_parts, path_parts) == TRUE

\* lines 282-283: whether the route is walked at all
SameLength(route_parts, path_parts) == Len(route_parts) = Len(path_parts)

\* lines 277-297: the loop over ROUTES.items() from entry i on
RECURSIVE RouteLoop(_, _, _, _, _, _)
RouteLoop(i, ev, now, uuid, t, b) ==
    IF i > Len(ROUTES)
    THEN Returned(None, None, Ret(make_response(404, [error |-> "Not Found"]), t, b))
    ELSE IF ~ev.httpMethod.some \/ ROUTES[i].method # ev.httpMethod.v
    THEN RouteLoop(i + 1, ev, now, uuid, t, b)
    ELSE IF ~ev.path.some THEN Raised("AttributeError", t, b)
    ELSE
    LET route_parts == Split(Strip(ROUTES[i].path, "/"), "/")
        path_parts == Split(Strip(ev.path.v, "/"), "/")
        m == MatchParts(route_parts, path_parts, 1, EmptyMap)
    IN IF ~SameLength(route_parts, path_parts)
       THEN RouteLoop(i + 1, ev, now, uuid, t, b)
       ELSE IF m.matched
       THEN Invoke(ROUTES[i].handler,
                   [ev EXCEPT !.pathParameters = Some(m.path_params)], now, uuid, t, b)
       ELSE RouteLoop(i + 1, ev, now, uuid, t, b)

\* lines 273-275: ROUTES.get((path, method)) and the call of what it finds
ExactMatch(ev) == RoutesGet(ev.path, ev.httpMethod)

\* def lambda_handler(event, context)
lambda_handler(ev, now, uuid, t, b) ==
    IF ExactMatch(ev) # 0
    THEN Invoke(ROUTES[ExactMatch(ev)].handler, ev, now, uuid, t, b)
    ELSE RouteLoop(1, ev, now, uuid, t, b)

\* ------------------------------------------------------------------- inputs
S(x) == JStr(<<x>>)

ItemMap(id) ==
    JMap([id |-> id, particulars |-> S("p"), project_class |-> S("k"),
          account |-> S("a"), vatable |-> S("yes"), amount |-> JNum(100)])

I1 == ItemMap(JNum(1))
S1 == ItemMap(S("1"))
N7 == JNum(7)

\* an item that lacks "amount"
ItemNoAmount == JMap([f \in {"id", "particulars", "project_class", "account", "vatable"} |-> S("1")])

InvoiceBody(ref, company, items) ==
    [reference_id |-> S(ref), company_name |-> S(company), tin |-> S("t1"),
     invoice_number |-> S("n1"), transaction_date |-> S("d1"), items |-> items,
     encoder |-> S("e"), payee |-> S("p"), payee_account |-> S("pa"),
     approver |-> S("ap")]

Without(d, f) == [k \in (DOMAIN d) \ {f} |-> d[k]]

BodyAbsent == [k |-> "absent"]
BodyNull == [k |-> "null"]
BodyMalformed == [k |-> "malformed"]
BodyJson(v) == [k |-> "json", v |-> v]
BodyMultipart(form, file) == [k |-> "multipart", form |-> form, file |-> file]

Headers(name, value) == Some([k \in {name} |-> value])
JsonHeaders == Headers("Content-Type", <<"application/json">>)

Payload(h, b) == [headers |-> h, body |-> b]

CreatePayloads ==
    { Payload(JsonHeaders, BodyJson(JMap(InvoiceBody("A", "c1", JList(<<I1>>))))),
      Payload(Headers("content-type", <<"application/json", "; charset=utf-8">>),
              BodyJson(JMap(InvoiceBody("A", "c2", JList(<<I1, S1>>))))),
      Payload(JsonHeaders, BodyJson(JMap(InvoiceBody("B", "c1", JList(<<>>))))),
      Payload(JsonHeaders,
              BodyJson(JMap(Without(InvoiceBody("A", "c1", JList(<<>>)), "approver")))),
      Payload(JsonHeaders,
              BodyJson(JMap(InvoiceBody("B", "c2", JList(<<I1, ItemNoAmount>>))))),
      Payload(Headers("content-type", <<"multipart/form-data", "; boundary=x">>),
              BodyMultipart(InvoiceBody("A", "c1", JText(JList(<<S1>>))),
                            Some([filename |-> "scan.pdf", content |-> "bytes"]))),
      Payload(Headers("Content-Type", <<"text/plain">>), BodyNull),
      Payload(Some(EmptyMap), BodyMalformed),
      Payload(None, BodyAbsent) }

UpdatePayloads ==
    { Payload(JsonHeaders, BodyJson(JMap([company_name |-> S("c2")]))),
      Payload(JsonHeaders,
              BodyJson(JMap([tin |-> S("t2"), transaction_date |-> S("d2"),
                             status |-> S("Paid")]))),
      Payload(JsonHeaders, BodyJson(JMap([items |-> JList(<<N7>>)]))),
      Payload(JsonHeaders,
              BodyJson(JMap([status |-> S("Paid"), reference_id |-> S("B")]))),
      Payload(JsonHeaders, BodyAbsent) }

ItemPayloads ==
    { Payload(JsonHeaders, BodyJson(I1)),
      Payload(JsonHeaders, BodyJson(S1)),
      Payload(JsonHeaders, BodyJson(ItemNoAmount)) }

Payloads == CreatePayloads \cup UpdatePayloads \cup ItemPayloads

\* a request without a body
NoPayload == Payload(Some(EmptyMap), BodyNull)

Paths ==
    { None,
      Some(<<>>),
      Some(<<"/", "invoices">>),
      Some(<<"/", "invoices", "/", "A">>),
      Some(<<"/", "invoices", "/", "B">>),
      Some(<<"/", "invoices", "/", "A", "/">>),
      Some(<<"/", "Invoices", "/", "A">>),
      Some(<<"/", "invoices", "/", "{", "reference_id", "}">>),
      Some(<<"/", "invoices", "/", "A", "/", "items">>),
      Some(<<"/", "invoices", "/", "A", "/", "foo">>),
      Some(<<"/", "invoices", "/", "A", "/", "items", "/", "1">>),
      Some(<<"/", "invoices", "/", "A", "/", "items", "/", "2">>) }

Methods == {None, Some("GET"), Some("POST"), Some("PUT"), Some("DELETE"), Some("PATCH")}

\* what the caller put in event["pathParameters"]
IncomingPathParameters ==
    { None,
      Some([k \in {<<"reference_id">>, <<"item_id">>} |->
               IF k = <<"reference_id">> THEN <<"B">> ELSE <<"1">>]) }

Events ==
    { [path |-> p, httpMethod |-> m, headers |-> pl.headers, body |-> pl.body,
       isBase64Encoded |-> FALSE, pathParameters |-> pp] :
      p \in Paths, m \in Methods, pl \in Payloads \cup {NoPayload},
      pp \in IncomingPathParameters }

\* datetime.utcnow().isoformat() and uuid.uuid4()
Timestamps == {"2025-01-01T00:00:00"}
Uuids == {"u1"}

\* ------------------------------------------------------------------ actions
NoResult == [raised |-> FALSE, invoked |-> None, handlerEvent |-> None, response |-> None]
Procs == {1, 2}
ProcIdle == [pc |-> "idle", ev |-> None, items |-> <<>>, response |-> None]
NoProcs == [p \in Procs |-> ProcIdle]

Init ==
    /\ table = EmptyMap
    /\ bucket = {}
    /\ pc = "idle"
    /\ served = 0
    /\ event = None
    /\ result = NoResult
    /\ prevTable = EmptyMap
    /\ procs = NoProcs

\* one invocation of lambda_handler(event, context), from the call to the return
\* or the raise; requests that carry no body are GET, DELETE and the like
LambdaHandler ==
    /\ pc = "idle"
    /\ served < MaxRequests
    /\ \E ev \in Events, now \in Timestamps, uuid \in Uuids :
          /\ (ev.httpMethod \notin {Some("POST"), Some("PUT")}) =>
                 Payload(ev.headers, ev.body) = NoPayload
          /\ LET o == lambda_handler(ev, now, uuid, table, bucket)
             IN /\ table' = o.table
                /\ bucket' = o.bucket
                /\ result' = IF o.raised
                             THEN [raised |-> TRUE, exc |-> o.exc, invoked |-> o.invoked,
                                   handlerEvent |-> o.handlerEvent, response |-> o.response]
                             ELSE [raised |-> FALSE, invoked |-> o.invoked,
                                   handlerEvent |-> o.handlerEvent, response |-> o.response]
          /\ event' = Some(ev)
    /\ prevTable' = table
    /\ pc' = "done"
    /\ served' = served + 1
    /\ UNCHANGED procs

\* the caller has the response (or the error); the next invocation may begin
Return ==
    /\ pc = "done"
    /\ pc' = "idle"
    /\ event' = None
    /\ result' = NoResult
    /\ prevTable' = table
    /\ UNCHANGED <<table, bucket, served, procs>>

Next == LambdaHandler \/ Return

Spec == Init /\ [][Next]_vars

\* ------------------------------------------------ concurrent add-item requests
\* Two invocations of add_item_to_invoice run at once, each in its own process;
\* the storage calls get_item and update_item are the atomic steps.

\* the event add_item_to_invoice receives for POST /invoices/{ref}/items
AddItemEvent(ref, pl) ==
    [path |-> Some(<<"/", "invoices", "/", ref, "/", "items">>), httpMethod |-> Some("POST"),
     headers |-> pl.headers, body |-> pl.body, isBase64Encoded |-> FALSE,
     pathParameters |-> Some([k \in {<<"reference_id">>} |-> <<ref>>])]

\* the table after POST /invoices with the payload
Created(t, pl) ==
    create_invoice_handler(
        [path |-> Some(PInvoices), httpMethod |-> Some("POST"), headers |-> pl.headers,
         body |-> pl.body, isBase64Encoded |-> FALSE, pathParameters |-> None],
        "2025-01-01T00:00:00", "u1", t, {}).table

PayloadA == Payload(JsonHeaders, BodyJson(JMap(InvoiceBody("A", "c1", JList(<<I1>>)))))
PayloadB == Payload(JsonHeaders, BodyJson(JMap(InvoiceBody("B", "c1", JList(<<>>)))))

InitConcurrent ==
    /\ table \in {Created(EmptyMap, PayloadA), Created(Created(EmptyMap, PayloadA), PayloadB)}
    /\ bucket = {}
    /\ pc = "idle"
    /\ served = 0
    /\ event = None
    /\ result = NoResult
    /\ prevTable = EmptyMap
    /\ procs = NoProcs

\* lines 217-224: the request arrives and is validated
AddBegin(p) ==
    /\ procs[p].pc = "idle"
    /\ \E ref \in {"A", "B"}, pl \in ItemPayloads :
          LET ev == AddItemEvent(ref, pl)
          IN procs' = [procs EXCEPT ![p] =
                 IF AddItemValidate(ev).some
                 THEN [pc |-> "done", ev |-> Some(ev), items |-> <<>>,
                       response |-> AddItemValidate(ev)]
                 ELSE [pc |-> "get", ev |-> Some(ev), items |-> <<>>, response |-> None]]
    /\ UNCHANGED <<table, bucket, pc, served, event, result, prevTable>>

\* lines 226-231: get_item and the append to the list it returned
AddGet(p) ==
    /\ procs[p].pc = "get"
    /\ LET r == AddItemRead(procs[p].ev.v, table)
       IN procs' = [procs EXCEPT ![p] =
              IF r.ok THEN [@ EXCEPT !.pc = "update", !.items = r.items]
              ELSE [@ EXCEPT !.pc = "done", !.response = Some(r.response)]]
    /\ UNCHANGED <<table, bucket, pc, served, event, result, prevTable>>

\* lines 233-239: update_item and the 200
AddUpdate(p) ==
    /\ procs[p].pc = "update"
    /\ table' = AddItemWrite(procs[p].ev.v, table, procs[p].items)
    /\ procs' = [procs EXCEPT ![p] =
           [@ EXCEPT !.pc = "done", !.response = Some(AddItemDone(procs[p].ev.v))]]
    /\ UNCHANGED <<bucket, pc, served, event, result, prevTable>>

NextConcurrent == \E p \in Procs : AddBegin(p) \/ AddGet(p) \/ AddUpdate(p)

SpecConcurrent == InitConcurrent /\ [][NextConcurrent]_vars

\* ------------------------------------------------------------------- claims
Done == pc = "done"
Handled(name) == Done /\ result.invoked = Some(name)
Status == result.response.v.statusCode
NotFound == make_response(404, [error |-> "Not Found"])

\* the '/'-separated segments of a path, leading and trailing '/' trimmed
Segments(path) == Split(Strip(path, "/"), "/")

\* route i is registered for the method and its pattern matches the path
RouteMatches(i, path, method) ==
    /\ path.some /\ method.some
    /\ ROUTES[i].method = method.v
    /\ Len(Segments(ROUTES[i].path)) = Len(Segments(path.v))
    /\ \A k \in 1..Len(Segments(ROUTES[i].path)) :
          \/ IsPlaceholder(Segments(ROUTES[i].path)[k])
          \/ Segments(ROUTES[i].path)[k] = Segments(path.v)[k]

Matching(ev) == {i \in 1..Len(ROUTES) : RouteMatches(i, ev.path, ev.httpMethod)}

\* placeholder name -> path segment, for route i
Bindings(i, path) ==
    LET rp == Segments(ROUTES[i].path)
        holes == {k \in 1..Len(rp) : IsPlaceholder(rp[k])}
        name(k) == SubSeq(rp[k], 2, Len(rp[k]) - 1)
    IN [n \in {name(k) : k \in holes} |->
           Segments(path)[CHOOSE k \in holes : name(k) = n /\ \A j \in holes : name(j) = n => j <= k]]

NoBindings(pp) == ~pp.some \/ DOMAIN pp.v = {}

\* C1: an invocation of lambda_handler never ends in an error: it returns the
\* result of a handler or the fixed not-found response.
C1_NeverRaises ==
    Done => /\ ~result.raised
            /\ result.invoked.some \/ result.response = Some(NotFound)

\* C2: DELETE /invoices/{reference_id} of an absent invoice answers 404 and leaves
\* the table alone; it answers 200 only when the invoice was stored and is gone.
C2_DeleteAbsentIs404 ==
    (Handled("delete_invoice_handler") /\ PathParam(result.handlerEvent.v, <<"reference_id">>).some) =>
        LET ref == PathParam(result.handlerEvent.v, <<"reference_id">>).v
        IN /\ ref \notin DOMAIN prevTable => (Status = 404 /\ table = prevTable)
           /\ Status = 200 => (ref \in DOMAIN prevTable /\ ref \notin DOMAIN table)

\* C3: when (path, method) is verbatim a key of the route table, that key's handler
\* is invoked and the event it receives carries no path-parameter bindings.
C3_ExactMatchNoParams ==
    (Done /\ ExactMatch(event.v) # 0) =>
        /\ result.invoked = Some(ROUTES[ExactMatch(event.v)].handler)
        /\ NoBindings(result.handlerEvent.v.pathParameters)

\* C4: without an exact match, the handler invoked is that of the first route in
\* registration order that matches method, segment count and literal segments,
\* and the pathParameters it receives are exactly that route's bindings.
C4_FirstPatternMatchWins ==
    (Done /\ ExactMatch(event.v) = 0 /\ Matching(event.v) # {}) =>
        LET i == Min(Matching(event.v))
        IN /\ ~result.raised
           /\ result.invoked = Some(ROUTES[i].handler)
           /\ result.handlerEvent.v.pathParameters = Some(Bindings(i, event.v.path.v))
           /\ result.handlerEvent.v =
                 [event.v EXCEPT !.pathParameters = Some(Bindings(i, event.v.path.v))]

\* C4 witness: a pattern route won although the caller's event carried bindings of
\* its own, and the handler saw only the route's binding.
C4_Witness ==
    /\ Done /\ ExactMatch(event.v) = 0 /\ Matching(event.v) # {}
    /\ event.v.pathParameters.some
    /\ event.v.path = Some(<<"/", "invoices", "/", "A", "/">>)
    /\ result.invoked = Some("get_invoice_handler")
    /\ result.handlerEvent.v.pathParameters =
          Some([k \in {<<"reference_id">>} |-> <<"A">>])
    /\ Status = 200

\* C5: a (path, method) that is no registered pair and that no registered pattern
\* matches gets the fixed 404, with no handler invoked and the table unchanged.
C5_UnregisteredIs404 ==
    (Done /\ ExactMatch(event.v) = 0 /\ Matching(event.v) = {}) =>
        /\ ~result.raised
        /\ result.response = Some(NotFound)
        /\ ~result.invoked.some
        /\ table = prevTable

\* the fields a POST /invoices request carries, and whether they make a valid body
PostedFields(ev) ==
    IF ev.body.k = "multipart" THEN ev.body.form
    ELSE IF ev.body.k = "json" /\ ev.body.v.ty = "map" THEN ev.body.v.m
    ELSE EmptyMap

PostedItems(ev) ==
    IF PostedFields(ev).items.ty = "jsonstr" THEN PostedFields(ev).items.v
    ELSE PostedFields(ev).items

ValidCreate(ev) ==
    /\ ev.headers.some
    /\ \E n \in {"Content-Type", "content-type"} \cap DOMAIN ev.headers.v :
          \/ StartsWith(ev.headers.v[n], ApplicationJson) /\ ev.body.k = "json"
          \/ StartsWith(ev.headers.v[n], MultipartFormData) /\ ev.body.k = "multipart"
    /\ \A i \in 1..Len(RequiredFields) : RequiredFields[i] \in DOMAIN PostedFields(ev)
    /\ PostedFields(ev).reference_id.ty = "str"
    /\ PostedItems(ev).ty = "list"
    /\ \A i \in 1..Len(PostedItems(ev).l) :
          /\ PostedItems(ev).l[i].ty = "map"
          /\ \A k \in 1..Len(ItemFields) : ItemFields[k] \in DOMAIN PostedItems(ev).l[i].m

\* C6: POST /invoices with a valid body whose reference_id is stored answers 409
\* and leaves every stored record as it was.
C6_DuplicateCreateIs409 ==
    (Handled("create_invoice_handler") /\ ValidCreate(event.v)
        /\ PostedFields(event.v).reference_id.s \in DOMAIN prevTable) =>
        /\ Status = 409
        /\ table = prevTable

\* C6 witness: a valid create for a stored reference_id, whose body differs from
\* the stored record, was answered.
C6_Witness ==
    /\ Handled("create_invoice_handler") /\ ValidCreate(event.v)
    /\ PostedFields(event.v).reference_id.s \in DOMAIN prevTable
    /\ prevTable[PostedFields(event.v).reference_id.s].company_name
          # PostedFields(event.v).company_name
    /\ Status = 409

\* the reference_id and the JSON object of a PUT that update_invoice_handler got
PutRef == PathParam(result.handlerEvent.v, <<"reference_id">>)
PutBody == JsonLoadsBody(event.v)
Allowed == {AllowedFields[i] : i \in 1..Len(AllowedFields)}

\* C7: PUT /invoices/{reference_id} with a JSON object: 404 and no change when the
\* invoice is absent; 400 and no change when it is stored and the body holds none
\* of company_name, tin, transaction_date, items; otherwise exactly those of the
\* four that the body holds take the body's values and every other field of the
\* record, and every other record, stays as it was.
C7_PartialUpdate ==
    (Handled("update_invoice_handler") /\ PutRef.some /\ PutBody.ok /\ PutBody.v.ty = "map") =>
        LET ref == PutRef.v
            body == PutBody.v.m
        IN /\ ref \notin DOMAIN prevTable => (Status = 404 /\ table = prevTable)
           /\ (ref \in DOMAIN prevTable /\ Allowed \cap DOMAIN body = {}) =>
                 (Status = 400 /\ table = prevTable)
           /\ (ref \in DOMAIN prevTable /\ Allowed \cap DOMAIN body # {}) =>
                 /\ Status = 200
                 /\ DOMAIN table = DOMAIN prevTable
                 /\ \A k \in (DOMAIN table) \ {ref} : table[k] = prevTable[k]
                 /\ DOMAIN table[ref] = DOMAIN prevTable[ref]
                 /\ \A f \in DOMAIN table[ref] :
                       table[ref][f] = IF f \in Allowed \cap DOMAIN body THEN body[f]
                                       ELSE prevTable[ref][f]

\* C7 witness: a PUT that named two allowed fields and status changed the two,
\* with another invoice in the table.
C7_Witness ==
    /\ Handled("update_invoice_handler") /\ PutRef.some /\ PutBody.ok /\ PutBody.v.ty = "map"
    /\ PutRef.v \in DOMAIN prevTable
    /\ DOMAIN PutBody.v.m = {"tin", "transaction_date", "status"}
    /\ table[PutRef.v].tin # prevTable[PutRef.v].tin
    /\ Cardinality(DOMAIN table) = 2
    /\ Status = 200

\* the parameters and the item lists of a delete-item request
DelRef == PathParam(result.handlerEvent.v, <<"reference_id">>)
DelItemId == PathParam(result.handlerEvent.v, <<"item_id">>)
OldItems == prevTable[DelRef.v].items.l
NewItems == table[DelRef.v].items.l

\* item i of the list has an id that, as a string, equals item_id
HasId(items, i, item_id) ==
    /\ items[i].ty = "map"
    /\ "id" \in DOMAIN items[i].m
    /\ PyStr(Some(items[i].m.id)) = item_id

\* C8: a delete-item that answers 200 removes exactly one element, the item whose
\* id equals item_id, and keeps the other items in their order.
C8_DeleteItemRemovesOne ==
    (Handled("delete_item_from_invoice") /\ Status = 200) =>
        /\ Len(NewItems) = Len(OldItems) - 1
        /\ \E i \in 1..Len(OldItems) :
              /\ HasId(OldItems, i, DelItemId.v)
              /\ NewItems = SubSeq(OldItems, 1, i - 1) \o SubSeq(OldItems, i + 1, Len(OldItems))

\* C9: delete-item on a stored invoice none of whose items has the id answers 404
\* and leaves the table as it was.
C9_DeleteMissingItemIs404 ==
    (Handled("delete_item_from_invoice") /\ DelRef.some /\ DelItemId.some
        /\ DelRef.v \in DOMAIN prevTable
        /\ prevTable[DelRef.v].items.ty = "list"
        /\ \A i \in 1..Len(OldItems) : ~HasId(OldItems, i, DelItemId.v)) =>
        /\ Status = 404
        /\ table = prevTable

\* C10: two concurrent add-item requests on one invoice that both answer 200 leave
\* both appended items in the stored list.
C10_NoLostUpdate ==
    (/\ \A p \in Procs : procs[p].pc = "done" /\ procs[p].response.v.statusCode = 200
     /\ procs[1].ev.v.pathParameters = procs[2].ev.v.pathParameters) =>
        LET l == table[procs[1].ev.v.pathParameters.v[<<"reference_id">>]].items.l
        IN \E i, j \in 1..Len(l) :
              /\ i # j
              /\ l[i] = procs[1].ev.v.body.v
              /\ l[j] = procs[2].ev.v.body.v

====
